---- MODULE Spec2Model ----
(***************************************************************************)
(* Model of promptui's Prompt.Run (src/prompt.go): the interactive         *)
(* single-line prompt.  A run compiles the templates, constructs the       *)
(* line-editing engine, installs a keystroke listener and a key filter,    *)
(* blocks in ReadLine while the engine feeds keystrokes to the callbacks,  *)
(* and finalises on Enter, interrupt or end-of-input.                      *)
(*                                                                         *)
(* Strings are sequences of one-character strings.  Errors are values      *)
(* compared by identity; ErrorMsg gives their message text.                *)
(***************************************************************************)
EXTENDS Integers, Sequences, FiniteSets, TLC

(* ---------------------------------------------------------------- bounds *)

\* Longest candidate the keyboard is allowed to build.
MaxLen == 2

(* ---------------------------------------------------------------- inputs *)

\* Printable runes the user may type.
Chars == {"y", "N", "a"}

\* p.Mask: the zero rune means no masking.
NUL == "NUL"
Masks == {NUL, "*"}

\* p.Label, handed to every template but the validation-error one.
Label == "label"

\* p.Default values the runs start from.
Defaults == {<< >>, <<"Y">>, <<"n", "a">>}

(* ---------------------------------------------------------------- errors *)

Nil == "nil"
\* The engine's error values.
ReadlineErrInterrupt == "readline.ErrInterrupt"
IoEOF == "io.EOF"
\* An engine error that is neither of the two above.
ErrIO == "engine: input/output error"
\* An error that is not readline.ErrInterrupt but whose text is "Interrupt".
ErrTextInterrupt == "other error with text Interrupt"
ErrNewEngine == "readline.NewFromConfig error"
\* promptui's own error values.
ErrInterrupt == "promptui.ErrInterrupt"
ErrEOF == "promptui.ErrEOF"
ErrAbort == "promptui.ErrAbort"
\* The error of text/template for a malformed source.
ErrParse == "template: parse error"
\* The errors of the user's validator.
ErrRequired == "validate: required"
ErrBadChar == "validate: bad character"

ValidatorErrors == {ErrRequired, ErrBadChar}

\* err.Error()
ErrorMsg(e) ==
  CASE e = ReadlineErrInterrupt -> "Interrupt"
    [] e = ErrTextInterrupt -> "Interrupt"
    [] e = IoEOF -> "EOF"
    [] e = ErrInterrupt -> "^C"
    [] e = ErrEOF -> "^D"
    [] e = ErrAbort -> ""
    [] OTHER -> e

(* ------------------------------------------------------------- strings *)

Range(s) == {s[i] : i \in 1..Len(s)}

LowerRune(r) ==
  CASE r = "Y" -> "y"
    [] r = "N" -> "n"
    [] r = "A" -> "a"
    [] OTHER -> r

\* strings.ToLower
ToLower(s) == [i \in 1..Len(s) |-> LowerRune(s[i])]

\* strings.Repeat(string(mask), n)
Repeat(r, n) == [i \in 1..n |-> r]

(* ----------------------------------------------------------- templates *)

\* The source fields of PromptTemplates, and the compiled slot of each.
SourceFields == {"Prompt", "Confirm", "Valid", "Invalid", "Success",
                 "Unvalidated", "ValidationError"}

\* A template source text/template cannot parse.
BadSrc == "{{ malformed"

\* A well-formed template source the caller wrote for a field.
CustomSrc(field) == "custom " \o field

\* The built-in sources substituted for unset fields.
DefaultConfirmYn == "{{ IconInitial | bold }} {{ . | bold }}? {{ [Y/n] | faint }} "
DefaultConfirmyN == "{{ IconInitial | bold }} {{ . | bold }}? {{ [y/N] | faint }} "
DefaultPrompt == "bold(IconInitial) {{ . | bold }}bold(:) "
DefaultValid == "bold(IconGood) {{ . | bold }}bold(:) "
DefaultUnvalidated == "bold(IconInitial) {{ . | bold }}bold(:) "
DefaultInvalid == "bold(IconBad) {{ . | bold }}bold(:) "
DefaultValidationError == "{{ >> | red }} {{ . | red }} {{ Press any key to get back to the prompt | faint }}"
DefaultSuccess == "{{ . | faint }}faint(:) "

\* A *PromptTemplates: nil, or the struct it points to.
UnsetTemplates ==
  [nil |-> FALSE, FuncMap |-> "nil",
   Prompt |-> "", Confirm |-> "", Valid |-> "", Invalid |-> "", Success |-> "",
   Unvalidated |-> "", ValidationError |-> "",
   prompt |-> "", valid |-> "", invalid |-> "", validation |-> "",
   success |-> "", unvalidated |-> ""]

NilTemplates == [UnsetTemplates EXCEPT !.nil = TRUE]

CustomTemplates ==
  [UnsetTemplates EXCEPT !.Prompt = CustomSrc("Prompt"), !.Confirm = CustomSrc("Confirm"),
                         !.Valid = CustomSrc("Valid"), !.Invalid = CustomSrc("Invalid"),
                         !.Success = CustomSrc("Success"),
                         !.Unvalidated = CustomSrc("Unvalidated"),
                         !.ValidationError = CustomSrc("ValidationError")]

\* The p.Templates values the runs start from.
TemplateInputs ==
  {NilTemplates, CustomTemplates}
    \cup {[UnsetTemplates EXCEPT ![f] = BadSrc] : f \in SourceFields}

\* template.New("").Funcs(tpls.FuncMap).Parse(src): a compiled template is
\* determined by its source.
Parse(src) ==
  IF src = BadSrc THEN [tpl |-> "", err |-> ErrParse] ELSE [tpl |-> src, err |-> Nil]

\* render(tpl, data): the bytes of a compiled template executed on data.
render(tpl, data) == [tpl |-> tpl, data |-> data]

\* CompileField without its `if err != nil { return err }`.
CompileField_IgnoresError(t, field, slot, default) ==
  LET t1 == IF t[field] = "" THEN [t EXCEPT ![field] = default] ELSE t
  IN [err |-> Nil, t |-> [t1 EXCEPT ![slot] = Parse(t1[field]).tpl]]

\* One "if unset, default; parse; store" block of prepareTemplates.
CompileField(t, field, slot, default) ==
  LET t1 == IF t[field] = "" THEN [t EXCEPT ![field] = default] ELSE t
      r == Parse(t1[field])
  IN IF r.err # Nil THEN [err |-> r.err, t |-> t1]
     ELSE [err |-> Nil, t |-> [t1 EXCEPT ![slot] = r.tpl]]

\* The blocks of prepareTemplates in source order, for a configuration q.
TemplateSteps(q) ==
  << IF q.IsConfirm
       THEN <<"Confirm", "prompt",
              IF ToLower(q.Default) = <<"y">> THEN DefaultConfirmYn ELSE DefaultConfirmyN>>
       ELSE <<"Prompt", "prompt", DefaultPrompt>>,
     <<"Valid", "valid", DefaultValid>>,
     <<"Unvalidated", "unvalidated", DefaultUnvalidated>>,
     <<"Invalid", "invalid", DefaultInvalid>>,
     <<"ValidationError", "validation", DefaultValidationError>>,
     <<"Success", "success", DefaultSuccess>> >>

RECURSIVE CompileFrom(_, _, _)
CompileFrom(t, steps, i) ==
  IF i > Len(steps) THEN [err |-> Nil, t |-> t]
  ELSE LET r == CompileField(t, steps[i][1], steps[i][2], steps[i][3])
       IN IF r.err # Nil THEN r ELSE CompileFrom(r.t, steps, i + 1)

\* p.prepareTemplates(): the error returned and p.Templates afterwards.  A nil
\* p.Templates is replaced only on success; the caller's struct is filled in
\* place, also when a later template fails to parse.
prepareTemplates(q) ==
  LET tpls == [q.Templates EXCEPT !.nil = FALSE,
                                  !.FuncMap = IF @ = "nil" THEN "FuncMap" ELSE @]
      r == CompileFrom(tpls, TemplateSteps(q), 1)
  IN [err |-> r.err,
      Templates |-> IF r.err # Nil /\ q.Templates.nil THEN q.Templates ELSE r.t]

(* -------------------------------------------------------------- cursor *)

\* Keys the cursor tells apart from printable runes.
KeyNone == "Key0"
KeyEnter == "KeyEnter"
KeyCtrlJ == "KeyCtrlJ"
KeyBackspace == "KeyBackspace"
KeyForward == "KeyForward"
KeyBackward == "KeyBackward"

\* Clamp of an edit position to the candidate.
correctPosition(c) ==
  [c EXCEPT !.Position = IF @ > Len(c.input) THEN Len(c.input) ELSE IF @ < 0 THEN 0 ELSE @]

\* Cursor.Move
Move(c, shift) == correctPosition([c EXCEPT !.Position = @ + shift])

\* NewCursor(input, pointer, eraseDefault): the candidate is the default text
\* and the edit position is its end.
NewCursor(input, eraseDefault) ==
  [input |-> input, Position |-> Len(input), erase |-> eraseDefault]

\* Cursor.Get: the live candidate, unmasked.
Get(c) == c.input

\* Cursor.GetMask: as many mask runes as the candidate has runes.
GetMask(c, mask) == Repeat(mask, Len(c.input))

\* The echo of runes a: the runes before the edit position, the rune the
\* pointer is drawn on (none at the end of the runes), and the runes after it.
format(a, c) ==
  LET i == c.Position
  IN IF i >= Len(a)
       THEN [before |-> a, pointer |-> << >>, after |-> << >>]
       ELSE [before |-> SubSeq(a, 1, i), pointer |-> <<a[i + 1]>>,
             after |-> SubSeq(a, i + 2, Len(a))]

\* Cursor.Format
Format(c) == format(c.input, c)

\* Cursor.FormatMask
FormatMask(c, mask) == format(Repeat(mask, Len(c.input)), c)

\* Cursor.Update: insert newinput at the edit position.
Update(c, newinput) ==
  Move([c EXCEPT !.input = SubSeq(@, 1, c.Position) \o newinput
                             \o SubSeq(@, c.Position + 1, Len(@))],
       Len(newinput))

\* Cursor.Replace
Replace(c, input) == [c EXCEPT !.input = input, !.Position = Len(input)]

\* Cursor.Backspace: delete the rune before the edit position.
Backspace(c) ==
  IF c.Position = 0 THEN c
  ELSE Move([c EXCEPT !.input = SubSeq(@, 1, c.Position - 1)
                                  \o SubSeq(@, c.Position + 1, Len(@))], -1)

\* Cursor.Listen(line, pos, key): the cursor after the engine reports key with
\* the runes `line` it has buffered since the last report.
Listen(c, line, key) ==
  LET u == Update(c, line)
  IN CASE key = KeyNone -> u
       [] key \in {KeyEnter, KeyCtrlJ} -> u
       [] key = KeyBackspace ->
            Backspace(IF u.erase THEN Replace([u EXCEPT !.erase = FALSE], << >>) ELSE u)
       [] key = KeyForward -> Move([u EXCEPT !.erase = FALSE], 1)
       [] key = KeyBackward -> Move([u EXCEPT !.erase = FALSE], -1)
       [] OTHER ->
            IF u.erase
              THEN Update(Replace([u EXCEPT !.erase = FALSE], << >>), <<key>>)
              ELSE u

(* ----------------------------------------------------------- validator *)

\* The p.Validate values the runs start from: none, or a validator that wants
\* a non-empty candidate without the rune "a".
Validators == {"nil", "NonEmptyNoA"}

\* validFn, lines 147-152: the always-nil default unless p.Validate is set.
validFn(q, x) ==
  IF q.Validate = "nil" THEN Nil
  ELSE IF x = << >> THEN ErrRequired
  ELSE IF "a" \in Range(x) THEN ErrBadChar
  ELSE Nil

(* --------------------------------------------------------------- state *)

VARIABLES
  p,           \* the Prompt: its configuration fields and p.Templates
  pc,          \* where Run is: start, prepared, constructed, reading, returned, done
  rl,          \* the line-editing engine: none, open, closed
  promptText,  \* the engine's prompt, as last given to rl.SetPrompt
  out,         \* the calls on rl that write or close: Write payloads and Close, in order
  cur,         \* the Cursor of the run
  err,         \* Run's err variable, shared with the key filter
  ret,         \* what Run returned
  last,        \* the last event the engine delivered, and whether an Enter was blocked
  calls        \* validator calls: how many in the last step and on what, and whether any was made

vars == <<p, pc, rl, promptText, out, cur, err, ret, last, calls>>

NoEcho == [before |-> << >>, pointer |-> << >>, after |-> << >>]
NoText == render("", "")

\* The escape sequences Run writes around the read.
hideCursor == [kind |-> "hideCursor", text |-> NoText, echo |-> << >>]
showCursor == [kind |-> "showCursor", text |-> NoText, echo |-> << >>]
newline == [kind |-> "newline", text |-> NoText, echo |-> << >>]
\* rl.Close()
closeEngine == [kind |-> "close", text |-> NoText, echo |-> << >>]

NotReturned == [returned |-> FALSE, value |-> << >>, err |-> Nil]
Returned(value, e) == [returned |-> TRUE, value |-> value, err |-> e]

Prompts ==
  [Default : Defaults, AllowEdit : BOOLEAN, Validate : Validators, Mask : Masks,
   LazyValidation : BOOLEAN, IsConfirm : BOOLEAN, Templates : TemplateInputs]

Init ==
  /\ p \in Prompts
  /\ pc = "start"
  /\ rl = "none"
  /\ promptText = [set |-> FALSE, text |-> NoText, echo |-> NoEcho]
  /\ out = << >>
  /\ cur = NewCursor(<< >>, FALSE)
  /\ err = Nil
  /\ ret = NotReturned
  /\ last = [ev |-> "none", key |-> KeyNone, blocked |-> FALSE]
  /\ calls = [step |-> 0, any |-> FALSE, arg |-> << >>]

(* ------------------------------------------------- callbacks and helpers *)

\* The validator handed the masked echo instead of the candidate.
ValidatorArg_Masked(q, c) == IF q.Mask # NUL THEN GetMask(c, q.Mask) ELSE Get(c)

\* Lines 166 and 195, validFn(cur.Get()): what the validator is called on.
ValidatorArg(q, c) == Get(c)

\* eraseDefault computed without `&& !p.AllowEdit`.
InitialCursor_IgnoresAllowEdit(q) ==
  LET input == IF q.IsConfirm THEN << >> ELSE q.Default
  IN NewCursor(input, input # << >>)

\* Lines 154-159: the cursor a run starts with.
InitialCursor(q) ==
  LET input == IF q.IsConfirm THEN << >> ELSE q.Default
  IN NewCursor(input, input # << >> /\ ~q.AllowEdit)

\* listen validating also in lazy mode.
ListenTemplate_IgnoresLazy(q, c) ==
  IF validFn(q, ValidatorArg(q, c)) # Nil
    THEN render(q.Templates.invalid, Label)
    ELSE IF q.IsConfirm THEN render(q.Templates.prompt, Label)
         ELSE render(q.Templates.valid, Label)

\* listen without the confirm-mode override of the valid template.
ListenTemplate_NoConfirm(q, c) ==
  IF ~q.LazyValidation
    THEN IF validFn(q, ValidatorArg(q, c)) # Nil
           THEN render(q.Templates.invalid, Label)
           ELSE render(q.Templates.valid, Label)
    ELSE render(q.Templates.unvalidated, Label)

\* Lines 165-178 of listen: the template rendered for the candidate of c.
ListenTemplate(q, c) ==
  IF ~q.LazyValidation
    THEN IF validFn(q, ValidatorArg(q, c)) # Nil
           THEN render(q.Templates.invalid, Label)
           ELSE IF q.IsConfirm THEN render(q.Templates.prompt, Label)
                ELSE render(q.Templates.valid, Label)
    ELSE render(q.Templates.unvalidated, Label)

\* listen without `if p.Mask != 0`.
ListenEcho_NoMask(q, c) == Format(c)

\* Lines 180-183 of listen: the echo appended to the prompt.
ListenEcho(q, c) == IF q.Mask # NUL THEN FormatMask(c, q.Mask) ELSE Format(c)

\* listen calling the validator in lazy mode too.
ListenCalls_Always(q) == 1

\* Validator calls one listen makes.
ListenCalls(q) == IF ~q.LazyValidation THEN 1 ELSE 0

\* The filter returning (r, true) also when the validator errs.
FilterEnter_AlwaysProcess(q, c) ==
  LET e == validFn(q, ValidatorArg(q, c))
  IN [err |-> e, process |-> TRUE,
      prompt |-> [set |-> TRUE, text |-> render(q.Templates.validation, e), echo |-> NoEcho],
      cur |-> c]

\* The filter validating p.Default instead of the cursor's candidate.
FilterEnter_ValidatesDefault(q, c) ==
  LET e == validFn(q, q.Default)
  IN [err |-> e, process |-> e = Nil,
      prompt |-> [set |-> TRUE, text |-> render(q.Templates.validation, e), echo |-> NoEcho],
      cur |-> c]

\* The filter emptying the candidate it rejects.
FilterEnter_ClearsCandidate(q, c) ==
  LET e == validFn(q, ValidatorArg(q, c))
  IN [err |-> e, process |-> e = Nil,
      prompt |-> [set |-> TRUE, text |-> render(q.Templates.validation, e), echo |-> NoEcho],
      cur |-> IF e = Nil THEN c ELSE Replace(c, << >>)]

\* The filter showing the invalid template on the label for a rejected Enter.
FilterEnter_ShowsInvalid(q, c) ==
  LET e == validFn(q, ValidatorArg(q, c))
  IN [err |-> e, process |-> e = Nil,
      prompt |-> [set |-> TRUE, text |-> render(q.Templates.invalid, Label), echo |-> NoEcho],
      cur |-> c]

\* Lines 192-204, FuncFilterInputRune on Enter or Ctrl-J: the validator's
\* verdict on the candidate, whether the rune is processed, the prompt set when
\* it is not, and the cursor, which the filter only reads.
FilterEnter(q, c) ==
  LET e == validFn(q, ValidatorArg(q, c))
  IN [err |-> e, process |-> e = Nil,
      prompt |-> [set |-> TRUE, text |-> render(q.Templates.validation, e), echo |-> NoEcho],
      cur |-> c]

\* `_, err := rl.ReadLine()` in a nested scope: the outer err keeps the value
\* the filter gave it.
ReadLineAssign_Shadowed(errBefore, readErr) == errBefore

\* Line 206, `_, err = rl.ReadLine()`: err after the read returned readErr.
ReadLineAssign(errBefore, readErr) == readErr

\* The error mapping without its io.EOF case.
MapReadError_NoEOF(e) ==
  LET e1 == CASE e = ReadlineErrInterrupt -> ErrInterrupt
              [] OTHER -> e
  IN IF ErrorMsg(e1) = "Interrupt" THEN ErrInterrupt ELSE e1

\* Lines 209-217: the error returned for a failed read.
MapReadError(e) ==
  LET e1 == CASE e = ReadlineErrInterrupt -> ErrInterrupt
              [] e = IoEOF -> ErrEOF
              [] OTHER -> e
  IN IF ErrorMsg(e1) = "Interrupt" THEN ErrInterrupt ELSE e1

\* The abort test with default "y" aborting on every answer but "y".
ConfirmAborts_StrictYes(default, answer) ==
  LET lowerDefault == ToLower(default)
      inputLower == ToLower(answer)
  IN \/ (lowerDefault = <<"y">> /\ inputLower # <<"y">>)
     \/ (lowerDefault # <<"y">> /\ inputLower # <<"y">>)

\* Lines 230-232: whether a confirm prompt's answer aborts.
ConfirmAborts(default, answer) ==
  LET lowerDefault == ToLower(default)
      inputLower == ToLower(answer)
  IN \/ (lowerDefault = <<"y">> /\ inputLower = <<"n">>)
     \/ (lowerDefault # <<"y">> /\ inputLower # <<"y">>)

\* Lines 221-227: the success line.
SuccessLine(q, c) ==
  [kind |-> "line", text |-> render(q.Templates.success, Label),
   echo |-> IF q.Mask # NUL THEN GetMask(c, q.Mask) ELSE Get(c)]

\* Line 233: the line of an aborted confirm prompt.
AbortLine(q) == [kind |-> "line", text |-> render(q.Templates.invalid, Label), echo |-> << >>]

\* The final calls with the cursor shown before the line is written.
FinalCalls_ShowFirst(prompt) == <<showCursor, prompt, newline, closeEngine>>

\* Lines 239-242: the calls on rl that end a completed read.
FinalCalls(prompt) == <<prompt, newline, showCursor, closeEngine>>

\* The masked echo returned in place of the candidate.
ReturnValue_Masked(q, c) == IF q.Mask # NUL THEN GetMask(c, q.Mask) ELSE Get(c)

\* Line 244: the value returned after a completed read.
ReturnValue(q, c) == Get(c)

(* ------------------------------------------------------------- actions *)

\* Lines 124-129: compile the templates; a failure returns at once.
RunPrepareTemplates ==
  /\ pc = "start"
  /\ LET r == prepareTemplates(p)
     IN /\ p' = [p EXCEPT !.Templates = r.Templates]
        /\ err' = r.err
        /\ IF r.err # Nil
             THEN pc' = "done" /\ ret' = Returned(<< >>, r.err)
             ELSE pc' = "prepared" /\ ret' = ret
  /\ UNCHANGED <<rl, promptText, out, cur, last, calls>>

\* Lines 131-159: construct the engine, hide the cursor, create the Cursor.
RunNewFromConfig ==
  /\ pc = "prepared"
  /\ \E e \in {Nil, ErrNewEngine} :
       /\ err' = e
       /\ IF e # Nil
            THEN /\ pc' = "done"
                 /\ ret' = Returned(<< >>, e)
                 /\ UNCHANGED <<rl, out, cur>>
            ELSE /\ pc' = "constructed"
                 /\ rl' = "open"
                 /\ out' = Append(out, hideCursor)
                 /\ cur' = InitialCursor(p)
                 /\ ret' = ret
  /\ UNCHANGED <<p, promptText, last, calls>>

\* listen, lines 161-189, called by the engine with `line` and `key`.
Listener(line, key) ==
  /\ cur' = Listen(cur, line, key)
  /\ promptText' = [set |-> TRUE, text |-> ListenTemplate(p, cur'),
                    echo |-> ListenEcho(p, cur')]
  /\ calls' = [step |-> ListenCalls(p), any |-> calls.any \/ ListenCalls(p) > 0,
                arg |-> IF ListenCalls(p) > 0 THEN ValidatorArg(p, cur') ELSE << >>]

\* Line 206: ReadLine starts; the engine reports the empty key to the listener
\* before it reads the first rune.
ReadLineStart ==
  /\ pc = "constructed"
  /\ Listener(<< >>, KeyNone)
  /\ last' = [ev |-> "start", key |-> KeyNone, blocked |-> FALSE]
  /\ pc' = "reading"
  /\ UNCHANGED <<p, rl, out, err, ret>>

\* A printable rune: the filter lets it through, the engine buffers it and
\* reports it; the listener's (nil, 0) answer empties the engine's buffer.
TypeRune ==
  /\ pc = "reading"
  /\ Len(cur.input) < MaxLen \/ cur.erase
  /\ \E r \in Chars :
       /\ Listener(<<r>>, r)
       /\ last' = [last EXCEPT !.ev = "key", !.key = r]
  /\ UNCHANGED <<p, pc, rl, out, err, ret>>

\* Backspace and the two movement keys: nothing is buffered by the engine.
EditKey ==
  /\ pc = "reading"
  /\ \E k \in {KeyBackspace, KeyForward, KeyBackward} :
       /\ Listener(<< >>, k)
       /\ last' = [last EXCEPT !.ev = "key", !.key = k]
  /\ UNCHANGED <<p, pc, rl, out, err, ret>>

\* Enter or Ctrl-J: the filter validates (lines 192-204); a rejected rune is
\* dropped, an accepted one completes ReadLine (line 206).
PressEnter ==
  /\ pc = "reading"
  /\ \E k \in {KeyEnter, KeyCtrlJ} :
       LET f == FilterEnter(p, cur)
       IN /\ last' = [ev |-> "enter", key |-> k, blocked |-> last.blocked \/ ~f.process]
          /\ calls' = [step |-> 1, any |-> TRUE, arg |-> ValidatorArg(p, cur)]
          /\ cur' = f.cur
          /\ IF f.process
               THEN /\ err' = ReadLineAssign(f.err, Nil)
                    /\ pc' = "returned"
                    /\ promptText' = promptText
               ELSE /\ err' = f.err
                    /\ pc' = "reading"
                    /\ promptText' = f.prompt
  /\ UNCHANGED <<p, rl, out, ret>>

\* The read ends with an engine error: interrupt, end of stream, or another.
ReadFails ==
  /\ pc = "reading"
  /\ \E e \in {ReadlineErrInterrupt, IoEOF, ErrIO, ErrTextInterrupt} :
       /\ err' = ReadLineAssign(err, e)
       /\ last' = [last EXCEPT !.ev = "readerror", !.key = e]
  /\ pc' = "returned"
  /\ calls' = [calls EXCEPT !.step = 0, !.arg = << >>]
  /\ UNCHANGED <<p, rl, promptText, out, cur, ret>>

\* Lines 208-244: what Run does once ReadLine has returned.
Finish ==
  /\ pc = "returned"
  /\ pc' = "done"
  /\ IF err # Nil
       THEN /\ err' = MapReadError(err)
            /\ ret' = Returned(<< >>, err')
            /\ UNCHANGED <<rl, out>>
       ELSE LET abort == p.IsConfirm /\ ConfirmAborts(p.Default, Get(cur))
                prompt == IF abort THEN AbortLine(p) ELSE SuccessLine(p, cur)
            IN /\ err' = IF abort THEN ErrAbort ELSE err
               /\ out' = out \o FinalCalls(prompt)
               /\ rl' = "closed"
               /\ ret' = Returned(ReturnValue(p, cur), err')
  /\ UNCHANGED <<p, promptText, cur, last, calls>>

Next ==
  \/ RunPrepareTemplates
  \/ RunNewFromConfig
  \/ ReadLineStart
  \/ TypeRune
  \/ EditKey
  \/ PressEnter
  \/ ReadFails
  \/ Finish

Spec == Init /\ [][Next]_vars

(* ------------------------------------------------------ repeated runs *)

\* The caller sets another Default on the same Prompt and calls Run again:
\* p.Templates is what the previous run left, everything else starts afresh.
RunAgain ==
  /\ pc = "done"
  /\ \E d \in Defaults : p' = [p EXCEPT !.Default = d]
  /\ pc' = "start"
  /\ rl' = "none"
  /\ promptText' = [set |-> FALSE, text |-> NoText, echo |-> NoEcho]
  /\ out' = << >>
  /\ cur' = NewCursor(<< >>, FALSE)
  /\ err' = Nil
  /\ ret' = NotReturned
  /\ last' = [ev |-> "none", key |-> KeyNone, blocked |-> FALSE]
  /\ calls' = [step |-> 0, any |-> FALSE, arg |-> << >>]

\* Prompts run more than once: no Templates given, no mask.
InitRerun ==
  /\ Init
  /\ p.Templates = NilTemplates
  /\ p.Mask = NUL
  /\ p.Validate = "nil"

NextRerun ==
  \/ RunPrepareTemplates
  \/ RunNewFromConfig
  \/ ReadLineStart
  \/ TypeRune
  \/ EditKey
  \/ PressEnter
  \/ ReadFails
  \/ Finish
  \/ RunAgain

SpecRerun == InitRerun /\ [][NextRerun]_vars

(* -------------------------------------------------------------- claims *)

\* The template compiled from the source p.Templates holds for a field.
CompiledOf(field) == Parse(p.Templates[field]).tpl

\* The prompt text of a blocked Enter: the validation-error template on e, no echo.
ValidationPrompt(e) ==
  [set |-> TRUE, text |-> render(CompiledOf("ValidationError"), e), echo |-> NoEcho]

\* The fields prepareTemplates compiles in the current mode.
CompiledFields == SourceFields \ {IF p.IsConfirm THEN "Prompt" ELSE "Confirm"}

\* Answers and defaults of a confirm prompt that read "y" and "n" in any case.
IsYes(x) == x \in {<<"y">>, <<"Y">>}
IsNo(x) == x \in {<<"n">>, <<"N">>}

\* C1: in lazy and in eager mode, an Enter (or Ctrl-J) pressed while the
\* validator errs on the candidate is rejected: the read does not complete and
\* the prompt becomes the validation-error template rendered on the validator's
\* error; and Run never returns a nil error with a value the validator rejects.
C1_SubmissionGating ==
  /\ (last.ev = "enter" /\ validFn(p, Get(cur)) # Nil) =>
       /\ pc = "reading"
       /\ ~ret.returned
       /\ promptText = ValidationPrompt(validFn(p, Get(cur)))
  /\ (ret.returned /\ ret.err = Nil) => validFn(p, ret.value) = Nil

\* An Enter blocked on a candidate with a rejected rune, the error displayed.
C1_Witness ==
  /\ last.ev = "enter" /\ pc = "reading"
  /\ Len(Get(cur)) = MaxLen
  /\ promptText.text.data = ErrBadChar

\* C2: after one or more blocked Enters, an Enter pressed on a candidate v the
\* validator accepts completes the read, and outside confirm mode Run returns
\* exactly v with a nil error.
C2_Recovery ==
  (last.ev = "enter" /\ last.blocked /\ validFn(p, Get(cur)) = Nil) =>
    /\ pc \in {"returned", "done"}
    /\ pc = "returned" => err = Nil
    /\ (pc = "done" /\ ~p.IsConfirm) => ret = Returned(Get(cur), Nil)

\* A run that returned its edited candidate after an Enter had been blocked.
C2_Witness ==
  /\ pc = "done" /\ last.ev = "enter" /\ last.blocked /\ ~p.IsConfirm
  /\ p.Validate # "nil"
  /\ ret = Returned(<<"y", "N">>, Nil)

\* C3: a confirm prompt starts from the empty candidate whatever Default is,
\* and when its read completes Run returns a nil error iff (Default reads "y"
\* and the answer does not read "n") or (Default does not read "y" and the
\* answer reads "y"); otherwise it returns the confirm-abort error.
C3_ConfirmRule ==
  /\ (p.IsConfirm /\ pc = "constructed") => Get(cur) = << >>
  /\ (p.IsConfirm /\ pc = "done" /\ last.ev = "enter") =>
       LET accept == \/ (IsYes(p.Default) /\ ~IsNo(Get(cur)))
                     \/ (~IsYes(p.Default) /\ IsYes(Get(cur)))
       IN /\ ret.returned
          /\ ret.err = IF accept THEN Nil ELSE ErrAbort

\* Default "Y" and the answer "N": the prompt aborts.
C3_Witness ==
  /\ p.IsConfirm /\ pc = "done" /\ last.ev = "enter"
  /\ p.Default = <<"Y">> /\ Get(cur) = <<"N">> /\ ret.err = ErrAbort

\* C4: on confirm-abort Run returns the confirm-abort error with an empty
\* value, for every aborting answer.
C4_AbortEmptyValue == (ret.returned /\ ret.err = ErrAbort) => ret.value = << >>

\* C5: a read ended by the engine's interrupt error returns ("", user-interrupt)
\* and one ended by end-of-stream returns ("", end-of-input), whatever the
\* candidate, the validation state and the keystrokes before.
C5_InterruptAndEOF ==
  (pc = "done" /\ last.ev = "readerror") =>
    /\ last.key = ReadlineErrInterrupt => ret = Returned(<< >>, ErrInterrupt)
    /\ last.key = IoEOF => ret = Returned(<< >>, ErrEOF)

\* End of input on a non-empty candidate after a blocked Enter.
C5_Witness ==
  /\ pc = "done" /\ last.ev = "readerror" /\ last.key = IoEOF
  /\ last.blocked /\ Len(Get(cur)) = MaxLen
  /\ ret.err = ErrEOF

\* C6: in lazy mode, after every non-Enter keystroke the prompt is the
\* unvalidated template rendered on the label, followed by the echo, whatever
\* the validator says of the candidate and in confirm mode too.
C6_LazyRendering ==
  (p.LazyValidation /\ last.ev = "key") =>
    /\ promptText.set
    /\ promptText.text = render(CompiledOf("Unvalidated"), Label)
    /\ promptText.echo = (IF p.Mask # NUL THEN FormatMask(cur, p.Mask) ELSE Format(cur))

\* A lazy confirm prompt showing the unvalidated template on a rejected candidate.
C6_Witness ==
  /\ p.LazyValidation /\ last.ev = "key" /\ p.IsConfirm
  /\ validFn(p, Get(cur)) = ErrBadChar
  /\ promptText.text.tpl = CustomSrc("Unvalidated")

\* C7: in eager mode, after every keystroke the listener handles the template
\* is the invalid one if the validator errs on the updated candidate, else the
\* valid one, or the confirm one when IsConfirm is set.
C7_EagerRendering ==
  (~p.LazyValidation /\ last.ev \in {"start", "key"}) =>
    promptText.text =
      IF validFn(p, Get(cur)) # Nil THEN render(CompiledOf("Invalid"), Label)
      ELSE IF p.IsConfirm THEN render(CompiledOf("Confirm"), Label)
      ELSE render(CompiledOf("Valid"), Label)

\* An eager confirm prompt showing the confirm template on an accepted answer.
C7_Witness ==
  /\ ~p.LazyValidation /\ last.ev = "key" /\ p.IsConfirm /\ p.Validate # "nil"
  /\ Get(cur) = <<"y">>
  /\ promptText.text.tpl = DefaultConfirmYn

\* C8: the templates are compiled before the engine is constructed or anything
\* is written; if a template compiled in the current mode fails to compile, Run
\* returns ("", that error) with no write, no engine, no validator call and no
\* keystroke read.
C8_CompileFirst ==
  /\ (pc # "start" /\ \E f \in CompiledFields : p.Templates[f] = BadSrc) =>
       /\ pc = "done"
       /\ ret = Returned(<< >>, ErrParse)
       /\ out = << >> /\ rl = "none" /\ ~promptText.set
       /\ ~calls.any /\ last.ev = "none"
  /\ (rl # "none" \/ out # << >> \/ promptText.set \/ calls.any \/ last.ev # "none") =>
       \A f \in CompiledFields : p.Templates[f] \notin {"", BadSrc}

\* A run ended by a malformed success template, the last one compiled.
C8_Witness ==
  /\ pc = "done" /\ p.Templates.Success = BadSrc /\ ret.err = ErrParse
  /\ p.Templates.validation # ""

\* C9: once the engine is constructed it is closed on every path by which Run
\* returns.
C9_EngineClosed == (ret.returned /\ rl # "none") => rl = "closed"

\* C10: the error Run returns is nil, user-interrupt, end-of-input, another
\* engine or configuration error, or confirm-abort: never a validator's error,
\* also after blocked Enters stored one in the err variable.
C10_NoValidatorError ==
  ret.returned =>
    /\ ret.err \notin ValidatorErrors
    /\ ret.err \in {Nil, ErrInterrupt, ErrEOF, ErrIO, ErrNewEngine, ErrParse, ErrAbort}

\* A read that failed while err held the validator's error of a blocked Enter.
C10_Witness ==
  /\ pc = "done" /\ last.ev = "readerror" /\ last.blocked
  /\ validFn(p, Get(cur)) = ErrRequired
  /\ ret.err = ErrInterrupt

\* A step in which the listener handled a printable rune.
RuneStep == pc = "reading" /\ pc' = "reading" /\ last'.ev = "key" /\ last'.key \in Chars

EchoRunes(e) == e.before \o e.pointer \o e.after

\* The final line of a run, when one was written.
FinalLines == {i \in 1..Len(out) : out[i].kind = "line"}

\* C12: with a mask M set, the echo after every keystroke and the echo of the
\* final success line are M repeated as many times as the candidate has runes
\* (none for the empty candidate), so no rune of the candidate is written.
C12_MaskEcho ==
  p.Mask # NUL =>
    /\ (pc = "reading" /\ last.ev \in {"start", "key"}) =>
         /\ EchoRunes(promptText.echo) = [i \in 1..Len(Get(cur)) |-> p.Mask]
         /\ Get(cur) = << >> => EchoRunes(promptText.echo) = << >>
    /\ Range(EchoRunes(promptText.echo)) \subseteq {p.Mask}
    /\ \A i \in FinalLines :
         /\ Range(out[i].echo) \subseteq {p.Mask}
         /\ ret.err = Nil => out[i].echo = [k \in 1..Len(Get(cur)) |-> p.Mask]

\* A masked prompt echoing two mask runes for a candidate of two runes.
C12_Witness ==
  /\ p.Mask = "*" /\ pc = "reading" /\ last.ev = "key"
  /\ Get(cur) = <<"y", "a">> /\ cur.Position = 1
  /\ EchoRunes(promptText.echo) = <<"*", "*">>

\* C13: a successful submission returns the live candidate unmasked, with a
\* mask set too, and the validator is always called on the unmasked candidate.
C13_UnmaskedValue ==
  /\ (pc = "done" /\ last.ev = "enter" /\ ret.err = Nil) => ret.value = cur.input
  /\ calls.step > 0 => calls.arg = cur.input

\* A masked prompt that returned the two runes typed.
C13_Witness ==
  /\ p.Mask = "*" /\ p.Validate # "nil" /\ pc = "done" /\ last.ev = "enter"
  /\ ret = Returned(<<"y", "N">>, Nil)
  /\ out[2].echo = <<"*", "*">>

\* C14: a read error becomes user-interrupt only when it is the engine's
\* interrupt error and end-of-input only when it is end-of-stream; every other
\* engine error is returned unchanged, whatever its message text.
C14_ErrorClassification ==
  (pc = "done" /\ last.ev = "readerror") =>
    ret.err = CASE last.key = ReadlineErrInterrupt -> ErrInterrupt
                [] last.key = IoEOF -> ErrEOF
                [] OTHER -> last.key

\* A step in which Enter or Ctrl-J was pressed.
EnterStep == pc = "reading" /\ last'.ev = "enter"

\* C15: an Enter the filter rejects because the validator errs leaves the
\* candidate, the edit position and the erase-on-edit flag as they were (and
\* writes nothing, returns nothing): only the prompt text changes.
C15_BlockedEnterFrame ==
  [][(EnterStep /\ validFn(p, Get(cur)) # Nil) =>
       /\ pc' = "reading"
       /\ cur' = cur
       /\ promptText' # promptText \/ last.ev = "enter"
       /\ UNCHANGED <<p, rl, out, ret>>]_vars

\* An Enter blocked on the untouched default "na", erase-on-edit still set.
C15_Witness ==
  /\ last.ev = "enter" /\ pc = "reading"
  /\ cur = [input |-> <<"n", "a">>, Position |-> 2, erase |-> TRUE]

\* The prompt text is the validation-error template rendered on a validator error.
IsValidationPrompt ==
  /\ promptText.set
  /\ promptText.text.tpl = CompiledOf("ValidationError")
  /\ promptText.text.data \in ValidatorErrors

\* The editing template of the current mode for the current candidate.
EditingText ==
  IF p.LazyValidation THEN render(CompiledOf("Unvalidated"), Label)
  ELSE IF validFn(p, Get(cur)) # Nil THEN render(CompiledOf("Invalid"), Label)
  ELSE IF p.IsConfirm THEN render(CompiledOf("Confirm"), Label)
  ELSE render(CompiledOf("Valid"), Label)

\* C16: while the read is blocked the prompt is the validation-error template
\* exactly between a blocked Enter and the next keystroke the listener handles;
\* that keystroke restores the editing template of the mode, and the template
\* is never shown unless an Enter was blocked by the validator.
C16_ValidationWindow ==
  /\ pc = "reading" => (IsValidationPrompt <=> last.ev = "enter")
  /\ IsValidationPrompt => last.blocked
  /\ (last.ev = "enter" /\ pc = "reading") =>
       promptText.text.data = validFn(p, Get(cur))
  /\ last.ev = "key" => promptText.text = EditingText

\* After a blocked Enter a keystroke brought back the eager valid template.
C16_Witness ==
  /\ last.ev = "key" /\ last.blocked /\ ~p.LazyValidation /\ ~p.IsConfirm
  /\ Get(cur) = <<"y">>
  /\ promptText.text = render(CustomSrc("Valid"), Label)

\* C17: no final line is written and the success template is not shown while
\* editing; after a read that completed without error Run writes once the
\* success template on the label with the final echo (on confirm-abort the
\* invalid template on the label without echo), a newline and the show-cursor
\* sequence, then closes the engine, in that order, and has then returned.
C17_FinalLine ==
  /\ pc # "done" =>
       /\ FinalLines = {}
       /\ promptText.set => promptText.text.tpl # CompiledOf("Success")
  /\ (pc = "done" /\ last.ev = "enter") =>
       /\ ret.returned /\ rl = "closed"
       /\ out = << hideCursor,
                   IF ret.err = ErrAbort
                     THEN [kind |-> "line", text |-> render(CompiledOf("Invalid"), Label),
                           echo |-> << >>]
                     ELSE [kind |-> "line", text |-> render(CompiledOf("Success"), Label),
                           echo |-> IF p.Mask # NUL THEN [i \in 1..Len(Get(cur)) |-> p.Mask]
                                                   ELSE Get(cur)],
                   newline, showCursor, closeEngine >>

\* An aborted confirm prompt whose one final line is the invalid template.
C17_Witness ==
  /\ pc = "done" /\ last.ev = "enter" /\ ret.err = ErrAbort
  /\ Get(cur) = <<"a">>
  /\ out[2].text = render(CustomSrc("Invalid"), Label)

\* C18: in lazy mode the validator is called on Enter and Ctrl-J only, in
\* eager mode also once for every keystroke the listener handles; every Enter
\* calls it once on the current candidate before the read may complete, and
\* with no validator configured the first Enter completes.
C18_ValidatorSchedule ==
  /\ (last.ev \in {"start", "key"}) => calls.step = (IF p.LazyValidation THEN 0 ELSE 1)
  /\ last.ev = "enter" => (calls.step = 1 /\ calls.arg = Get(cur))
  /\ (p.LazyValidation /\ calls.any) => (last.ev = "enter" \/ last.blocked)
  /\ (p.Validate = "nil" /\ last.ev = "enter") => (pc \in {"returned", "done"} /\ ~last.blocked)

\* A lazy prompt: after a blocked Enter, a keystroke that called no validator.
C18_Witness ==
  /\ p.LazyValidation /\ last.ev = "key" /\ last.blocked
  /\ calls.step = 0 /\ calls.any
  /\ validFn(p, Get(cur)) = ErrBadChar

\* C20: the hide-cursor sequence is written right after the engine is
\* constructed, and whenever Run has returned after that, the show-cursor
\* sequence was written after it.
C20_CursorShown ==
  /\ rl # "none" => (Len(out) >= 1 /\ out[1] = hideCursor)
  /\ ret.returned =>
       \A i \in 1..Len(out) :
         out[i] = hideCursor => \E j \in (i + 1)..Len(out) : out[j] = showCursor

\* C19: every run builds the default text of an unset template from the
\* configuration it starts with: a confirm prompt with no Confirm template of
\* the caller's shows the hint "Y/n" when its Default reads "y" and "y/N"
\* otherwise, also when an earlier run of the same Prompt had another Default.
C19_FreshTemplates ==
  (p.IsConfirm /\ pc # "start") =>
    /\ p.Templates.prompt = (IF IsYes(p.Default) THEN DefaultConfirmYn ELSE DefaultConfirmyN)
    /\ (pc = "reading" /\ last.ev = "start" /\ ~p.LazyValidation) =>
         promptText.text.tpl = (IF IsYes(p.Default) THEN DefaultConfirmYn ELSE DefaultConfirmyN)

====
